---- MODULE Spec2Model ----
(***************************************************************************)
(* Model of the wallet manager of TheCrownSK (src/src/wallet/manager.ts)   *)
(* and of the CLI commands that drive it (src/src/crownsk/                 *)
(* agent-alliance.ts).                                                     *)
(*                                                                         *)
(* Strings that the code inspects character by character (the private key, *)
(* the text of wallet.enc) are sequences; byte strings are sequences of    *)
(* numbers 0..255.  The cryptographic primitives are idealised: PBKDF2 is  *)
(* injective on (password, salt), AES-256-GCM is a keyed stream cipher     *)
(* with a collision-free tag on the values of the model, and               *)
(* crypto.randomBytes never returns the same value twice.                  *)
(***************************************************************************)
EXTENDS Integers, Sequences, FiniteSets, TLC

VARIABLES
    dirExists,          \* WALLET_DIR (~/.thecrownsk) exists
    saltFile,           \* SALT_FILE: [exists, data (bytes)]
    walletFile,         \* WALLET_FILE: [exists, data (characters)]
    modes,              \* permission bits of WALLET_DIR, SALT_FILE, WALLET_FILE
    currentAccount,     \* manager.ts:30
    currentPrivateKey,  \* manager.ts:31
    rng,                \* number of values crypto.randomBytes has returned
    walletClient,       \* blockchain/client.ts: the cached signing client
    env,                \* the parsed environment: [AGENT_PRIVATE_KEY]
    trade,              \* the buyTokens/sellTokens call in flight
    encryptions,        \* history: the derived key and the nonce of every
                        \* createCipheriv so far (NoHistory: not kept)
    stored,             \* history: the key, the password and the text of the
                        \* blob saveWallet wrote last
    lastResult          \* the last operation: its arguments, what it returned,
                        \* the fs and crypto calls it made, the rank of the
                        \* fs call that threw (0: none)

vars == <<dirExists, saltFile, walletFile, modes, currentAccount,
          currentPrivateKey, walletClient, env, trade, rng, stored,
          encryptions, lastResult>>

----------------------------------------------------------------------------
(* Bounds of the model *)

\* crypto.randomBytes results one run may draw for salts and nonces
MaxRandom == 4

\* fs calls of one operation, counted up to the one that throws
MaxFault == 7

(* Program constants *)
IV_LENGTH == 16
SALT_LENGTH == 32
MIN_PASSWORD_LENGTH == 8
PRIVATE_KEY_LENGTH == 66
OVERWRITE_PASSES == 3
GCM_TAG_LENGTH == 16

----------------------------------------------------------------------------
(* Strings *)

Rep(c, n) == [i \in 1..n |-> c]

\* The element of a set of one element
Only(S) == CHOOSE v \in S : TRUE

Null == <<>>

HexChars == {"0", "1", "2", "3", "4", "5", "6", "7", "8", "9",
             "a", "b", "c", "d", "e", "f", "A", "B", "C", "D", "E", "F"}

Whitespace == {" "}

\* ASCII codes of the characters key strings of the model are made of
Ascii == [c \in {" ", "0", "x", "a", "b", "g", "B"} |->
            CASE c = " " -> 32 [] c = "0" -> 48 [] c = "x" -> 120
              [] c = "a" -> 97 [] c = "b" -> 98 [] c = "g" -> 103
              [] c = "B" -> 66]

Utf8Encode(str) == [i \in 1..Len(str) |-> Ascii[str[i]]]

Utf8Decode(bytes) ==
    [i \in 1..Len(bytes) |->
        IF \E c \in DOMAIN Ascii : Ascii[c] = bytes[i]
        THEN CHOOSE c \in DOMAIN Ascii : Ascii[c] = bytes[i]
        ELSE "?"]

StartsWith0x(str) == Len(str) >= 2 /\ str[1] = "0" /\ str[2] = "x"

\* String.prototype.trim
Trim(str) ==
    Only({
        IF nonWs = {} THEN <<>>
        ELSE LET lo == IF 1 \in nonWs THEN 1
                       ELSE CHOOSE i \in nonWs : \A j \in nonWs : i <= j
                 hi == IF Len(str) \in nonWs THEN Len(str)
                       ELSE CHOOSE i \in nonWs : \A j \in nonWs : i >= j
             IN  SubSeq(str, lo, hi)
      : nonWs \in {{i \in 1..Len(str) : str[i] \notin Whitespace}}})

ToLower(c) == IF c = "B" THEN "b" ELSE c

----------------------------------------------------------------------------
(* Inputs *)

KeyA == <<"0", "x">> \o Rep("a", 64)
KeyB == <<"0", "x">> \o Rep("b", 64)
KeyBRaw == Rep("b", 64)                      \* no 0x prefix
KeyShort == <<"0", "x">> \o Rep("a", 63)     \* one hex digit short
KeyNotHex == <<"0", "x">> \o Rep("g", 64)    \* not hexadecimal

KeyInputs == {KeyA, KeyBRaw, KeyShort}

PasswordOrder == <<"longpassword1", "pass5678", "short12">>

Passwords == {PasswordOrder[i] : i \in 1..Len(PasswordOrder)}

PasswordCode(password) ==
    CHOOSE i \in 1..Len(PasswordOrder) : PasswordOrder[i] = password

----------------------------------------------------------------------------
(* Text of wallet.enc.  A character is a number: 0..63 are the characters  *)
(* of the base64 alphabet (A-Z a-z 0-9 + /) by their value, followed by    *)
(* the other characters a byte of the file can hold.                       *)

PadChar == 64           \* '='
Colon == 65             \* ':'
DashChar == 66          \* '-', the URL-safe form of '+' (62)
UnderscoreChar == 67    \* '_', the URL-safe form of '/' (63)
OtherChar == 68         \* any character outside both alphabets

FileChars == 0..OtherChar

\* The value of a base64 character, -1 for a character the decoder skips
Unbase64(c) ==
    IF c < 64 THEN c
    ELSE IF c = DashChar THEN 62
    ELSE IF c = UnderscoreChar THEN 63
    ELSE -1

ByteAt(bytes, j) == IF j <= Len(bytes) THEN bytes[j] ELSE 0

\* Buffer.prototype.toString('base64')
Base64Encode(bytes) ==
    Only({
        LET n == Len(b)
            m == (8 * n + 5) \div 6
            padded == ((m + 3) \div 4) * 4
            sextet(k) ==
                LET o == 6 * k
                    j == o \div 8
                    w == ByteAt(b, j + 1) * 256 + ByteAt(b, j + 2)
                IN  (w \div (2 ^ (10 - (o % 8)))) % 64
        IN  [i \in 1..padded |-> IF i <= m THEN sextet(i - 1) ELSE PadChar]
      : b \in {bytes}})

\* Buffer.from(str, 'base64'): decoding stops at the first '=', characters
\* outside the alphabets are skipped, both alphabets are accepted, and the
\* bits of the last character that do not fill a byte are dropped
Base64Decode(chars) ==
    LET stops == {i \in 1..Len(chars) : chars[i] = PadChar}
        end == IF stops = {} THEN Len(chars)
               ELSE (CHOOSE i \in stops : \A j \in stops : i <= j) - 1
        legal(c) == Unbase64(c) >= 0
    IN  Only({
            LET m == Len(sx)
                val(k) == IF k <= m THEN Unbase64(sx[k]) ELSE 0
            IN  [j \in 1..((6 * m) \div 8) |->
                    LET o == 8 * (j - 1)
                        k == o \div 6
                        w == val(k + 1) * 64 + val(k + 2)
                    IN  (w \div (2 ^ (4 - (o % 6)))) % 256]
          : sx \in {SelectSeq(SubSeq(chars, 1, end), legal)}})

\* String.prototype.split(':')
Split(chars) ==
    Only({
        LET n == Cardinality(colons)
            pos(k) == IF k = 0 THEN 0
                      ELSE IF k = n + 1 THEN Len(chars) + 1
                      ELSE CHOOSE i \in colons :
                              Cardinality({j \in colons : j < i}) = k - 1
        IN  [k \in 1..(n + 1) |-> SubSeq(chars, pos(k - 1) + 1, pos(k) - 1)]
      : colons \in {{i \in 1..Len(chars) : chars[i] = Colon}}})

----------------------------------------------------------------------------
(* Cryptographic primitives *)

\* crypto.randomBytes(size): the counter-th value drawn, never drawn before
\* The history of encryptions is not kept
NoHistory == <<[key |-> -1, iv |-> <<>>]>>

\* Mutant: every draw returns the same bytes
randomBytesConstant(counter, size) == Rep(1, size)

randomBytes(counter, size) == Rep(counter + 1, size)

RECURSIVE SumTo(_, _)
SumTo(bytes, n) == IF n = 0 THEN 0 ELSE bytes[n] + SumTo(bytes, n - 1)

RECURSIVE WeightedSumTo(_, _)
WeightedSumTo(bytes, n) ==
    IF n = 0 THEN 0 ELSE n * bytes[n] + WeightedSumTo(bytes, n - 1)

\* Mutant: the derived key does not depend on the password
deriveKeyIgnoringPassword(password, salt) == ByteAt(salt, 1)

\* PBKDF2: one key per (password, salt)
deriveKey(password, salt) == PasswordCode(password) * 16 + ByteAt(salt, 1)

\* AES-256 in counter mode: the i-th byte is shifted by a key stream that
\* depends on the key, the nonce and i
AesCtrEncrypt(key, iv, data) ==
    Only({[i \in 1..Len(data) |-> (data[i] + base + i) % 256]
          : base \in {key * 17 + SumTo(iv, Len(iv))}})

AesCtrDecrypt(key, iv, data) ==
    Only({[i \in 1..Len(data) |->
              (data[i] + 256 * (1 + (base + i) \div 256) - base - i) % 256]
          : base \in {key * 17 + SumTo(iv, Len(iv))}})

\* The GCM tag of (key, iv, ciphertext): 16 bytes, every one of which
\* differs when the key differs, and some of which differ when iv or
\* ciphertext differ in length or in at most two adjacent bytes
GcmTag(key, iv, ct) ==
    LET si == SumTo(iv, Len(iv))
        wi == WeightedSumTo(iv, Len(iv))
        sc == SumTo(ct, Len(ct))
        wc == WeightedSumTo(ct, Len(ct))
    IN  Only({[i \in 1..GCM_TAG_LENGTH |->
                  (ByteAt(digest, i) + key * (2 * i + 1)) % 256]
              : digest \in
                  {<<0, Len(iv) % 256, (si \div 256) % 256, si % 256,
                     (wi \div 256) % 256, wi % 256, Len(ct) % 256,
                     (sc \div 256) % 256, sc % 256,
                     (wc \div 65536) % 256, (wc \div 256) % 256, wc % 256>>}})

\* Tag lengths decipher.setAuthTag accepts for GCM
GcmTagLengths == {4, 8, 12, 13, 14, 15, 16}


----------------------------------------------------------------------------
(* The wallet manager: each operation maps the program state s (a record   *)
(* of the variables) to the state it leaves and the value it returns.      *)

NoFile == [exists |-> FALSE, data |-> <<>>]

File(data) == [exists |-> TRUE, data |-> data]

NoAccount == [address |-> <<>>]

NoStored == [key |-> <<>>, password |-> "", value |-> <<>>]

Success(address) == [success |-> TRUE, address |-> address, error |-> ""]

Failure(error) == [success |-> FALSE, address |-> <<>>, error |-> error]

\* viem's privateKeyToAccount: the address is a one-way image of the key's
\* value (hex digits compared without case); a zero key throws
privateKeyToAccount(privateKey) ==
    LET hex == [i \in 1..(Len(privateKey) - 2) |-> ToLower(privateKey[i + 2])]
    IN  [threw |-> \A i \in 1..Len(hex) : hex[i] = "0",
         account |-> [address |-> <<"address of">> \o hex]]

(* Calls into fs and crypto.  s.io is the list of the calls the running    *)
(* operation has made, s.n the number of them that can fail (every fs call *)
(* but existsSync), s.fault the rank of the one that throws (0: none) and  *)
(* s.threw whether an exception is on its way to the enclosing catch: a    *)
(* call reached while s.threw holds is not made.                           *)

\* mode: the permission bits of the file when mkdirSync or writeFileSync
\* has returned
Call(name, path, data) ==
    [call |-> name, path |-> path, data |-> data, mode |-> <<>>]

(* Permission bits: <<owner, group, other>>, each 0..7; <<>> for a file    *)
(* that does not exist.                                                    *)

NoMode == <<>>

NoModes == [WALLET_DIR |-> NoMode, SALT_FILE |-> NoMode, WALLET_FILE |-> NoMode]

OwnerOnlyDir == <<7, 0, 0>>     \* 0o700

OwnerOnlyFile == <<6, 0, 0>>    \* 0o600

DefaultFileMode == <<6, 6, 6>>  \* fs.writeFileSync without a mode: 0o666

\* The umask of the process
Umask == <<0, 2, 2>>

BitAnd(a, b) ==
    LET bit(x, k) == (x \div (2 ^ k)) % 2
        both(k) == IF bit(a, k) = 1 /\ bit(b, k) = 1 THEN 2 ^ k ELSE 0
    IN  both(0) + both(1) + both(2)

\* The mode a file is created with: mode & ~umask
Masked(mode) == [i \in 1..3 |-> mode[i] - BitAnd(mode[i], Umask[i])]

\* A call that does not throw: fs.existsSync, crypto
step(s, call) ==
    Only({IF t.threw THEN t ELSE [t EXCEPT !.io = Append(@, call)]
          : t \in {s}})

\* A call that throws when its rank is s.fault
fsCall(s, call) ==
    Only({IF t.threw THEN t
          ELSE [t EXCEPT !.io = Append(@, call),
                         !.n = @ + 1,
                         !.threw = (t.n + 1 = t.fault)]
          : t \in {s}})

\* The end of a try block: the exception, if any, is caught
caught(s) == [s EXCEPT !.threw = FALSE]

\* The message of an Error thrown by fs
FsErrorMessage == "EIO: i/o error"

setFile(s, path, file) ==
    IF path = "SALT_FILE" THEN [s EXCEPT !.saltFile = file]
    ELSE [s EXCEPT !.walletFile = file]

\* fs.mkdirSync(WALLET_DIR, { mode }): call stands for the call and its
\* result
mkdirSync(s, mode) ==
    Only({IF c.threw THEN c
          ELSE [c EXCEPT !.dirExists = TRUE,
                         !.modes.WALLET_DIR = Masked(mode),
                         !.io[Len(c.io)].mode = Masked(mode)]
          : c \in {fsCall(s, Call("mkdirSync", "WALLET_DIR", <<>>))}})

fileAt(s, path) == IF path = "SALT_FILE" THEN s.saltFile ELSE s.walletFile

\* Mutant: the mode asked for is ignored, a new file gets the default mode
writeFileSyncDefaultMode(s, path, data, mode) ==
    Only({
        IF t.threw THEN t
        ELSE Only({
            Only({
                IF c.threw
                THEN IF c.partial
                     THEN [setFile(c, path, File(<<>>))
                             EXCEPT !.modes[path] = now]
                     ELSE c
                ELSE [setFile(c, path, File(data))
                        EXCEPT !.modes[path] = now,
                               !.io[Len(c.io)].mode = now]
              : now \in {IF fileAt(t, path).exists THEN t.modes[path]
                         ELSE Masked(DefaultFileMode)}})
          : c \in {fsCall(t, Call("writeFileSync", path, data))}})
      : t \in {s}})

\* fs.writeFileSync(path, data, { mode }): the file is opened (and created
\* with the mode given, if it does not exist), truncated and written.  A
\* call that throws leaves the file as it was (the open failed) or empty
\* (the write failed), as s.partial says
writeFileSync(s, path, data, mode) ==
    Only({
        IF t.threw THEN t
        ELSE Only({
            Only({
                IF c.threw
                THEN IF c.partial
                     THEN [setFile(c, path, File(<<>>))
                             EXCEPT !.modes[path] = now]
                     ELSE c
                ELSE [setFile(c, path, File(data))
                        EXCEPT !.modes[path] = now,
                               !.io[Len(c.io)].mode = now]
              : now \in {IF fileAt(t, path).exists THEN t.modes[path]
                         ELSE Masked(mode)}})
          : c \in {fsCall(t, Call("writeFileSync", path, data))}})
      : t \in {s}})

\* Mutant: the existing salt file is not looked for, a new salt is written
\* on every call
getSaltAlwaysFresh(s) ==
    Only({[s |-> writeFileSync([s1 EXCEPT !.rng = @ + 1], "SALT_FILE",
                               randomBytes(s1.rng, SALT_LENGTH), OwnerOnlyFile),
           salt |-> randomBytes(s1.rng, SALT_LENGTH)]
          : s1 \in {IF ~s.dirExists THEN mkdirSync(s, OwnerOnlyDir) ELSE s}})

ensureWalletDir(s) ==
    Only({IF ~e.dirExists THEN mkdirSync(e, OwnerOnlyDir) ELSE e
          : e \in {step(s, Call("existsSync", "WALLET_DIR", <<>>))}})

getSalt(s) ==
    Only({
        IF s2.saltFile.exists
        THEN [s |-> fsCall(s2, Call("readFileSync", "SALT_FILE", <<>>)),
              salt |-> s2.saltFile.data]
        ELSE LET salt == randomBytes(s2.rng, SALT_LENGTH)
                 drawn == IF s2.threw THEN s2 ELSE [s2 EXCEPT !.rng = @ + 1]
             IN  [s |-> writeFileSync(drawn, "SALT_FILE", salt, OwnerOnlyFile),
                  salt |-> salt]
      : s2 \in {step(ensureWalletDir(s),
                     Call("existsSync", "SALT_FILE", <<>>))}})

encryptPrivateKey(s, privateKey, password) ==
    Only({
        LET key == deriveKey(password, g.salt)
            iv == randomBytes(g.s.rng, IV_LENGTH)
            drawn == IF g.s.threw THEN g.s
                     ELSE [g.s EXCEPT !.rng = @ + 1,
                                      !.encryptions =
                                          IF @ = NoHistory THEN @
                                          ELSE Append(@, [key |-> key,
                                                          iv |-> iv])]
        IN  Only({
                [s |-> step(step(drawn, Call("pbkdf2Sync", "", <<>>)),
                            Call("createCipheriv", "", <<>>)),
                 value |-> Base64Encode(iv) \o <<Colon>>
                             \o Base64Encode(GcmTag(key, iv, encrypted))
                             \o <<Colon>> \o Base64Encode(encrypted)]
              : encrypted \in {AesCtrEncrypt(key, iv, Utf8Encode(privateKey))}})
      : g \in {getSalt(s)}})

\* Mutant: the tag is not verified
GcmTagUnchecked(key, iv, encrypted, tag) == TRUE

\* What decipher.final() compares: the tag given against the head of the
\* tag of (key, iv, ciphertext)
GcmTagMatches(key, iv, encrypted, tag) ==
    tag = SubSeq(GcmTag(key, iv, encrypted), 1, Len(tag))

decryptPrivateKey(s, encryptedData, password) ==
    Only({
        LET key == deriveKey(password, g.salt)
            k == step(g.s, Call("pbkdf2Sync", "", <<>>))
            Throw(t, msg) ==
                [s |-> t, threw |-> TRUE, message |-> msg, value |-> <<>>]
        IN  IF g.s.threw THEN Throw(g.s, FsErrorMessage)
            ELSE IF Len(parts) # 3
            THEN Throw(k, "Invalid encrypted data format")
            ELSE Only({
                LET c == step(k, Call("createDecipheriv", "", <<>>))
                IN  IF Len(iv) = 0
                    THEN Throw(c, "Invalid initialization vector")
                    ELSE IF Len(tag) \notin GcmTagLengths
                    THEN Throw(c, "Invalid authentication tag length")
                    ELSE IF ~GcmTagMatches(key, iv, encrypted, tag)
                    THEN Throw(c, "Unsupported state or unable to authenticate data")
                    ELSE [s |-> c, threw |-> FALSE, message |-> "",
                          value |-> Utf8Decode(AesCtrDecrypt(key, iv, encrypted))]
              : iv \in {Base64Decode(parts[1])},
                tag \in {Base64Decode(parts[2])},
                encrypted \in {Base64Decode(parts[3])}})
      : g \in {getSalt(s)}, parts \in {Split(encryptedData)}})

\* Mutant: the length of the key is not checked
validatePrivateKeyAnyLength(privateKey) ==
    IF ~StartsWith0x(privateKey) THEN FALSE
    ELSE \A i \in 3..Len(privateKey) : privateKey[i] \in HexChars

validatePrivateKey(privateKey) ==
    IF ~StartsWith0x(privateKey) THEN FALSE
    ELSE IF Len(privateKey) # PRIVATE_KEY_LENGTH THEN FALSE
    ELSE \A i \in 3..Len(privateKey) : privateKey[i] \in HexChars

\* Mutant: a password of exactly 8 characters is rejected too
validatePasswordOffByOne(password) ==
    IF Len(password) <= MIN_PASSWORD_LENGTH
    THEN [valid |-> FALSE, error |-> "Password must be at least 8 characters."]
    ELSE [valid |-> TRUE, error |-> ""]

validatePassword(password) ==
    IF Len(password) < MIN_PASSWORD_LENGTH
    THEN [valid |-> FALSE, error |-> "Password must be at least 8 characters."]
    ELSE [valid |-> TRUE, error |-> ""]

\* saveWallet's "Normalize the private key"
normalizeKey(privateKey) ==
    LET trimmed == Trim(privateKey)
    IN  IF ~StartsWith0x(trimmed) THEN <<"0", "x">> \o trimmed ELSE trimmed

InvalidKeyFormat ==
    "Invalid private key format. Must be 64 hex characters (with or without 0x prefix)."

SaveFailed == "Failed to save wallet. Check your private key format."

NoWalletFound == "No wallet found. Use \"wallet set\" to add your private key."

\* saveWallet's "Encrypt and save" and "Update current state", and its catch
encryptAndSave(s, normalizedKey, password, account) ==
    Only({
        Only({
            IF w.threw
            THEN [s |-> caught(w), r |-> Failure(SaveFailed)]
            ELSE [s |-> [w EXCEPT !.stored = [key |-> normalizedKey,
                                              password |-> password,
                                              value |-> e.value],
                                  !.currentAccount = account,
                                  !.currentPrivateKey = normalizedKey],
                  r |-> Success(account.address)]
          : w \in {writeFileSync(e.s, "WALLET_FILE", e.value, OwnerOnlyFile)}})
      : e \in {encryptPrivateKey(ensureWalletDir(s), normalizedKey, password)}})

\* Mutant: the key is encrypted and written before anything is validated
saveWalletEncryptFirst(s, privateKey, password) ==
    Only({
        LET passwordCheck == validatePassword(password)
            sv == encryptAndSave(s, normalizedKey, password, NoAccount)
        IN  IF ~passwordCheck.valid
            THEN [s |-> sv.s, r |-> Failure(passwordCheck.error)]
            ELSE IF ~validatePrivateKey(normalizedKey)
            THEN [s |-> sv.s, r |-> Failure(InvalidKeyFormat)]
            ELSE IF privateKeyToAccount(normalizedKey).threw
            THEN [s |-> sv.s, r |-> Failure(SaveFailed)]
            ELSE encryptAndSave(s, normalizedKey, password,
                                privateKeyToAccount(normalizedKey).account)
      : normalizedKey \in {normalizeKey(privateKey)}})

\* Mutant: an exception of the file system is swallowed and success reported
saveWalletSwallowing(s, privateKey, password) ==
    Only({
        LET passwordCheck == validatePassword(password)
        IN  IF ~passwordCheck.valid
            THEN [s |-> s, r |-> Failure(passwordCheck.error)]
            ELSE IF ~validatePrivateKey(normalizedKey)
            THEN [s |-> s, r |-> Failure(InvalidKeyFormat)]
            ELSE IF privateKeyToAccount(normalizedKey).threw
            THEN [s |-> s, r |-> Failure(SaveFailed)]
            ELSE
            LET account == privateKeyToAccount(normalizedKey).account
            IN  [s |-> encryptAndSave(s, normalizedKey, password, account).s,
                 r |-> Success(account.address)]
      : normalizedKey \in {normalizeKey(privateKey)}})

saveWallet(s, privateKey, password) ==
    Only({
        LET passwordCheck == validatePassword(password)
        IN  IF ~passwordCheck.valid
            THEN [s |-> s, r |-> Failure(passwordCheck.error)]
            ELSE IF ~validatePrivateKey(normalizedKey)
            THEN [s |-> s, r |-> Failure(InvalidKeyFormat)]
            ELSE IF privateKeyToAccount(normalizedKey).threw
            THEN [s |-> s, r |-> Failure(SaveFailed)]
            ELSE encryptAndSave(s, normalizedKey, password,
                                privateKeyToAccount(normalizedKey).account)
      : normalizedKey \in {normalizeKey(privateKey)}})

\* msg.includes('bad decrypt') || msg.includes('authentication')
\*   || msg.includes('Unsupported state')
IsPasswordMessage(msg) ==
    msg \in {"Unsupported state or unable to authenticate data",
             "Invalid authentication tag length"}

\* loadWallet from fs.readFileSync on: decrypt, "Verify key works",
\* "Update current state", and the catch; update says whether the session
\* is updated
readAndDecrypt(s, password, update) ==
    Only({
        IF rd.threw
        THEN [s |-> caught(rd), r |-> Failure("Failed to load wallet.")]
        ELSE Only({
            IF d.threw
            THEN [s |-> caught(d.s),
                  r |-> IF IsPasswordMessage(d.message)
                        THEN Failure("Incorrect password.")
                        ELSE Failure("Failed to load wallet.")]
            ELSE IF privateKeyToAccount(d.value).threw
            THEN [s |-> d.s, r |-> Failure("Failed to load wallet.")]
            ELSE
            LET account == privateKeyToAccount(d.value).account
            IN  [s |-> IF update
                       THEN [d.s EXCEPT !.currentAccount = account,
                                        !.currentPrivateKey = d.value]
                       ELSE d.s,
                 r |-> Success(account.address)]
          : d \in {decryptPrivateKey(rd, rd.walletFile.data, password)}})
      : rd \in {fsCall(s, Call("readFileSync", "WALLET_FILE", <<>>))}})

\* Mutant: the decrypted key is returned but the session is not updated
loadWalletWithoutSession(s, password) ==
    Only({IF ~e.walletFile.exists
          THEN [s |-> e, r |-> Failure(NoWalletFound)]
          ELSE readAndDecrypt(e, password, FALSE)
          : e \in {step(s, Call("existsSync", "WALLET_FILE", <<>>))}})

\* Mutant: wallet.enc is read and decrypted without looking whether it
\* exists
loadWalletWithoutVaultCheck(s, password) == readAndDecrypt(s, password, TRUE)

loadWallet(s, password) ==
    Only({IF ~e.walletFile.exists
          THEN [s |-> e, r |-> Failure(NoWalletFound)]
          ELSE readAndDecrypt(e, password, TRUE)
          : e \in {step(s, Call("existsSync", "WALLET_FILE", <<>>))}})

\* fs.statSync(WALLET_FILE)
statSync(s) == fsCall(s, Call("statSync", "WALLET_FILE", <<>>))

\* Mutant: one overwrite pass only
RECURSIVE overwriteWithRandomOnce(_, _, _)
overwriteWithRandomOnce(s, fileSize, n) ==
    IF n = 0 THEN s
    ELSE writeFileSync(s, "WALLET_FILE", Rep(OtherChar, fileSize),
                       DefaultFileMode)

\* fs.writeFileSync(WALLET_FILE, crypto.randomBytes(fileSize)), n times
RECURSIVE overwriteWithRandom(_, _, _)
overwriteWithRandom(s, fileSize, n) ==
    IF n = 0 THEN s
    ELSE overwriteWithRandom(
             writeFileSync(s, "WALLET_FILE", Rep(OtherChar, fileSize),
                           DefaultFileMode),
             fileSize, n - 1)

\* Mutant: the account is cleared and the key is left in memory
clearSessionKeepingKey(s) == [s EXCEPT !.currentAccount = NoAccount]

clearSession(s) ==
    [s EXCEPT !.currentAccount = NoAccount, !.currentPrivateKey = Null]

\* fs.unlinkSync(WALLET_FILE); the vault saveWallet wrote is no more
unlink(s) ==
    Only({IF c.threw THEN c
          ELSE [c EXCEPT !.walletFile = NoFile,
                         !.modes.WALLET_FILE = NoMode,
                         !.stored = NoStored]
          : c \in {fsCall(s, Call("unlinkSync", "WALLET_FILE", <<>>))}})

\* deleteWallet's "Overwrite with random data before deleting"
removeFile(s) ==
    Only({IF e.walletFile.exists
          THEN unlink(overwriteWithRandom(statSync(e), Len(e.walletFile.data),
                                          OVERWRITE_PASSES))
          ELSE e
          : e \in {step(s, Call("existsSync", "WALLET_FILE", <<>>))}})

\* Mutant: the file is removed and the session is left as it is
deleteWalletKeepingSession(s) ==
    Only({IF s1.threw
          THEN [s |-> caught(s1), r |-> Failure("Failed to delete wallet.")]
          ELSE [s |-> s1, r |-> Success(<<>>)]
          : s1 \in {removeFile(s)}})

deleteWallet(s) ==
    Only({IF s1.threw
          THEN [s |-> caught(s1), r |-> Failure("Failed to delete wallet.")]
          ELSE [s |-> clearSession(s1), r |-> Success(<<>>)]
          : s1 \in {removeFile(s)}})

walletExists(s) == s.walletFile.exists

getWalletInfo(s) ==
    IF s.currentAccount = NoAccount THEN [present |-> FALSE,
                                          address |-> <<>>,
                                          hasPrivateKey |-> FALSE]
    ELSE [present |-> TRUE, address |-> s.currentAccount.address,
          hasPrivateKey |-> s.currentPrivateKey # Null]

getCurrentAccount(s) == s.currentAccount

\* Exported; blockchain/client.ts calls it to build the signing client
getCurrentPrivateKey(s) == s.currentPrivateKey

isWalletLoaded(s) == s.currentAccount # NoAccount

\* Mutant: the new wallet is saved first and the old one deleted after it
updateWalletSaveThenDelete(s, newPrivateKey, password) ==
    Only({IF ~sv.r.success THEN sv
          ELSE [s |-> deleteWallet(sv.s).s, r |-> sv.r]
          : sv \in {saveWallet(s, newPrivateKey, password)}})

updateWallet(s, newPrivateKey, password) ==
    Only({IF ~d.r.success
          THEN [s |-> d.s,
                r |-> Failure("Failed to remove old wallet: Failed to delete wallet.")]
          ELSE saveWallet(d.s, newPrivateKey, password)
          : d \in {deleteWallet(s)}})

\* Mutant: the vault is unlocked before the new password is validated
changePasswordLoadFirst(s, oldPassword, newPassword) ==
    Only({
        IF ~l.r.success THEN [s |-> l.s, r |-> Failure(l.r.error)]
        ELSE IF ~validatePassword(newPassword).valid
        THEN [s |-> l.s, r |-> Failure(validatePassword(newPassword).error)]
        ELSE Only({
            IF ~sv.r.success
            THEN [s |-> sv.s, r |-> Failure(sv.r.error)]
            ELSE [s |-> sv.s, r |-> Success(<<>>)]
          : sv \in {saveWallet(l.s, l.s.currentPrivateKey, newPassword)}})
      : l \in {loadWallet(s, oldPassword)}})

\* Mutant: the key is saved again under the old password
changePasswordKeepingOld(s, oldPassword, newPassword) ==
    IF ~validatePassword(newPassword).valid
    THEN [s |-> s, r |-> Failure(validatePassword(newPassword).error)]
    ELSE Only({
        IF ~l.r.success THEN [s |-> l.s, r |-> Failure(l.r.error)]
        ELSE [s |-> saveWallet(l.s, l.s.currentPrivateKey, oldPassword).s,
              r |-> Success(<<>>)]
      : l \in {loadWallet(s, oldPassword)}})

changePassword(s, oldPassword, newPassword) ==
    LET passwordCheck == validatePassword(newPassword)
    IN  IF ~passwordCheck.valid
        THEN [s |-> s, r |-> Failure(passwordCheck.error)]
        ELSE Only({
            IF ~l.r.success THEN [s |-> l.s, r |-> Failure(l.r.error)]
            ELSE IF l.s.currentPrivateKey = Null
            THEN [s |-> l.s, r |-> Failure("No private key loaded.")]
            ELSE Only({
                IF ~sv.r.success
                THEN [s |-> sv.s, r |-> Failure(sv.r.error)]
                ELSE [s |-> sv.s, r |-> Success(<<>>)]
              : sv \in {saveWallet(l.s, l.s.currentPrivateKey, newPassword)}})
          : l \in {loadWallet(s, oldPassword)}})

\* Mutant: the vault file is removed together with the session
clearWalletFromMemoryAndDisk(s) ==
    [s |-> clearSession([s EXCEPT !.walletFile = NoFile,
                                  !.modes.WALLET_FILE = NoMode]),
     r |-> Success(<<>>)]

clearWalletFromMemory(s) == [s |-> clearSession(s), r |-> Success(<<>>)]

----------------------------------------------------------------------------
(* The environment and blockchain/client.ts *)

ZeroKey == <<"0", "x">> \o Rep("0", 64)

KeyEnv == <<"0", "x">> \o Rep("c", 64)

\* envSchema: AGENT_PRIVATE_KEY is optional and defaults to the zero key
\* (a value of another format ends the process in loadEnv)
parseEnv(supplied) ==
    [AGENT_PRIVATE_KEY |-> IF supplied = Null THEN ZeroKey ELSE supplied]

\* No client cached (walletClient = null)
NoClient == [account |-> NoAccount]

createWalletClient(account) == [account |-> account]

NoWalletLoaded ==
    "No wallet loaded. Use \"wallet set\" to add your private key or \"wallet unlock\" to unlock existing wallet."

resetWalletClient(s) == [s EXCEPT !.walletClient = NoClient]

\* getWalletClient: r.address is the address of the account of the client
\* returned, r.error the message of the error thrown
getWalletClient(s) ==
    IF getCurrentPrivateKey(s) # Null
    THEN Only({
            IF a.threw THEN [s |-> s, r |-> Failure("invalid private key")]
            ELSE IF \/ s.walletClient = NoClient
                    \/ s.walletClient.account.address # a.account.address
            THEN [s |-> [s EXCEPT !.walletClient = createWalletClient(a.account)],
                  r |-> Success(a.account.address)]
            ELSE [s |-> s, r |-> Success(s.walletClient.account.address)]
          : a \in {privateKeyToAccount(getCurrentPrivateKey(s))}})
    ELSE IF s.env.AGENT_PRIVATE_KEY # Null /\ s.env.AGENT_PRIVATE_KEY # <<"0", "x">>
    THEN IF s.walletClient = NoClient
         THEN Only({
                 IF a.threw THEN [s |-> s, r |-> Failure("invalid private key")]
                 ELSE [s |-> [s EXCEPT !.walletClient =
                                           createWalletClient(a.account)],
                       r |-> Success(a.account.address)]
               : a \in {privateKeyToAccount(s.env.AGENT_PRIVATE_KEY)}})
         ELSE [s |-> s, r |-> Success(s.walletClient.account.address)]
    ELSE [s |-> s, r |-> Failure(NoWalletLoaded)]

\* getAccount: the account of getWalletClient()
getAccount(s) == getWalletClient(s)

hasWallet(s) ==
    IF getCurrentPrivateKey(s) # Null THEN TRUE
    ELSE IF s.env.AGENT_PRIVATE_KEY # Null /\ s.env.AGENT_PRIVATE_KEY # <<"0", "x">>
    THEN TRUE
    ELSE FALSE

\* TheCrownSKCLI.start: the wallet line it prints
start(s) ==
    IF hasWallet(s)
    THEN IF getAccount(s).r.success THEN "Wallet: address" ELSE "Wallet: Error loading"
    ELSE IF walletExists(s) THEN "Wallet: Locked"
    ELSE "Wallet: Not configured"

----------------------------------------------------------------------------
(* The wallet commands of TheCrownSKCLI *)

\* Mutant: "wallet set" does not look for an existing wallet
walletSetUnguarded(s, privateKey, password, confirmPassword) ==
    IF privateKey = <<>> \/ password = ""
    THEN [s |-> s, r |-> Failure("Cancelled.")]
    ELSE IF password # confirmPassword
    THEN [s |-> s, r |-> Failure("Passwords do not match.")]
    ELSE saveWallet(s, privateKey, password)

\* TheCrownSKCLI.walletSet: the "wallet set" command
walletSet(s, privateKey, password, confirmPassword) ==
    IF walletExists(s)
    THEN [s |-> s, r |-> Failure("A wallet already exists. Use \"wallet change\" to replace it.")]
    ELSE IF privateKey = <<>> \/ password = ""
    THEN [s |-> s, r |-> Failure("Cancelled.")]
    ELSE IF password # confirmPassword
    THEN [s |-> s, r |-> Failure("Passwords do not match.")]
    ELSE Only({IF result.r.success
               THEN [s |-> resetWalletClient(result.s), r |-> result.r]
               ELSE result
              : result \in {saveWallet(s, privateKey, password)}})

\* TheCrownSKCLI.walletUnlock
walletUnlock(s, password) ==
    IF ~walletExists(s)
    THEN [s |-> s, r |-> Failure("No saved wallet found. Use \"wallet set\" first.")]
    ELSE IF isWalletLoaded(s)
    THEN [s |-> s, r |-> Success(getWalletInfo(s).address)]
    ELSE IF password = ""
    THEN [s |-> s, r |-> Failure("Cancelled.")]
    ELSE Only({IF result.r.success
               THEN [s |-> resetWalletClient(result.s), r |-> result.r]
               ELSE result
              : result \in {loadWallet(s, password)}})

\* TheCrownSKCLI.walletRemove
walletRemove(s, confirm) ==
    IF ~walletExists(s)
    THEN [s |-> s, r |-> Failure("No saved wallet to remove.")]
    ELSE IF confirm # "yes"
    THEN [s |-> s, r |-> Failure("Cancelled.")]
    ELSE Only({IF result.r.success
               THEN [s |-> resetWalletClient(result.s), r |-> result.r]
               ELSE result
              : result \in {deleteWallet(s)}})

\* TheCrownSKCLI.walletChange
walletChange(s, confirm, privateKey, password, confirmPassword) ==
    IF ~walletExists(s)
    THEN [s |-> s, r |-> Failure("No existing wallet. Use \"wallet set\" instead.")]
    ELSE IF confirm # "yes" \/ privateKey = <<>> \/ password = ""
    THEN [s |-> s, r |-> Failure("Cancelled.")]
    ELSE IF password # confirmPassword
    THEN [s |-> s, r |-> Failure("Passwords do not match.")]
    ELSE Only({IF result.r.success
               THEN [s |-> resetWalletClient(result.s), r |-> result.r]
               ELSE result
              : result \in {updateWallet(s, privateKey, password)}})

\* TheCrownSKCLI.walletChangePassword
walletChangePassword(s, oldPassword, newPassword, confirmPassword) ==
    IF ~walletExists(s)
    THEN [s |-> s, r |-> Failure("No saved wallet found.")]
    ELSE IF oldPassword = "" \/ newPassword = ""
    THEN [s |-> s, r |-> Failure("Cancelled.")]
    ELSE IF newPassword # confirmPassword
    THEN [s |-> s, r |-> Failure("Passwords do not match.")]
    ELSE changePassword(s, oldPassword, newPassword)

----------------------------------------------------------------------------
(* The state machine *)

State ==
    [dirExists |-> dirExists, saltFile |-> saltFile, walletFile |-> walletFile,
     currentAccount |-> currentAccount, currentPrivateKey |-> currentPrivateKey,
     rng |-> rng, stored |-> stored, modes |-> modes,
     encryptions |-> encryptions, walletClient |-> walletClient, env |-> env,
     io |-> <<>>, n |-> 0, fault |-> 0, partial |-> FALSE, threw |-> FALSE]

\* The state s an operation has ended in, as the next operation finds it
Settled(s) ==
    [s EXCEPT !.io = <<>>, !.n = 0, !.fault = 0, !.partial = FALSE,
              !.threw = FALSE]

\* No trade in flight
NoTrade ==
    [pc |-> "idle", kind |-> "", account |-> NoAccount,
     walletClient |-> NoClient, signed |-> <<>>, deleted |-> {}]

\* What a trade in flight has seen of the operation that ended in s: the
\* addresses of the vault keys that deleteWallet removed since the trade
\* began and that are not the key of the vault now
Observed(s) ==
    IF trade.pc = "idle" THEN trade
    ELSE LET address(key) == privateKeyToAccount(key).account.address
             removed == IF stored # NoStored /\ s.stored.key # stored.key
                        THEN {address(stored.key)} ELSE {}
             kept == IF s.stored # NoStored
                     THEN {address(s.stored.key)} ELSE {}
         IN  [trade EXCEPT !.deleted = (@ \cup removed) \ kept]

\* The operation op, called with arguments a1 and a2, has run to its end
Apply(op, a1, a2, res) ==
    /\ res.s.rng <= MaxRandom
    /\ dirExists' = res.s.dirExists
    /\ saltFile' = res.s.saltFile
    /\ walletFile' = res.s.walletFile
    /\ currentAccount' = res.s.currentAccount
    /\ currentPrivateKey' = res.s.currentPrivateKey
    /\ rng' = res.s.rng
    /\ stored' = res.s.stored
    /\ modes' = res.s.modes
    /\ encryptions' = res.s.encryptions
    /\ walletClient' = res.s.walletClient
    /\ env' = res.s.env
    /\ trade' = Observed(res.s)
    /\ lastResult' = [op |-> op, a1 |-> a1, a2 |-> a2, r |-> res.r,
                      io |-> res.s.io, fault |-> res.s.fault]

\* The process has started with the environment env0
Boot(env0, history) ==
    /\ dirExists = FALSE
    /\ saltFile = NoFile
    /\ walletFile = NoFile
    /\ currentAccount = NoAccount
    /\ currentPrivateKey = Null
    /\ rng = 0
    /\ stored = NoStored
    /\ modes = NoModes
    /\ encryptions = history
    /\ walletClient = NoClient
    /\ env = env0
    /\ trade = NoTrade
    /\ lastResult = [op |-> "start", a1 |-> <<>>, a2 |-> "",
                     r |-> Success(<<>>), io |-> <<>>, fault |-> 0]

\* AGENT_PRIVATE_KEY is not set in the environment
Init == Boot(parseEnv(Null), NoHistory)

SaveWallet ==
    \E privateKey \in KeyInputs \cup {KeyNotHex}, password \in Passwords :
        \E res \in {saveWallet(State, privateKey, password)} :
            Apply("saveWallet", privateKey, password, res)

LoadWallet ==
    \E password \in Passwords :
        \E res \in {loadWallet(State, password)} :
            Apply("loadWallet", <<>>, password, res)

DeleteWallet ==
    \E res \in {deleteWallet(State)} : Apply("deleteWallet", <<>>, "", res)

UpdateWallet ==
    \E newPrivateKey \in KeyInputs, password \in Passwords :
        \E res \in {updateWallet(State, newPrivateKey, password)} :
            Apply("updateWallet", newPrivateKey, password, res)

ChangePassword ==
    \E oldPassword \in Passwords, newPassword \in Passwords :
        \E res \in {changePassword(State, oldPassword, newPassword)} :
            Apply("changePassword", <<oldPassword>>, newPassword, res)

ClearWalletFromMemory ==
    \E res \in {clearWalletFromMemory(State)} :
        Apply("clearWalletFromMemory", <<>>, "", res)

WalletSet ==
    \E privateKey \in KeyInputs \cup {<<>>}, password \in Passwords \cup {""},
       confirmPassword \in Passwords :
        \E res \in {walletSet(State, privateKey, password, confirmPassword)} :
            Apply("walletSet", privateKey, password, res)

Next ==
    \/ SaveWallet
    \/ LoadWallet
    \/ DeleteWallet
    \/ UpdateWallet
    \/ ChangePassword
    \/ ClearWalletFromMemory
    \/ WalletSet

Spec == Init /\ [][Next]_vars

\* The same operations, with the history of encryptions kept
InitEncryptions == Boot(parseEnv(Null), <<>>)

SpecEncryptions == InitEncryptions /\ [][Next]_vars

----------------------------------------------------------------------------
(* The wallet commands of the CLI, and the callers of getWalletClient      *)
(* (trades, balance and portfolio queries) between them.  The environment  *)
(* has AGENT_PRIVATE_KEY unset or set to a key of its own.                 *)

InitCli == \E supplied \in {Null, KeyEnv} : Boot(parseEnv(supplied), NoHistory)

CliKeys == {KeyA, KeyBRaw, KeyShort}

CliPasswords == {"longpassword1", "short12"}

WalletSetCommand ==
    \E privateKey \in CliKeys, password \in CliPasswords :
        \E res \in {walletSet(State, privateKey, password, password)} :
            Apply("walletSet", privateKey, password, res)

WalletUnlock ==
    \E password \in CliPasswords :
        \E res \in {walletUnlock(State, password)} :
            Apply("walletUnlock", <<>>, password, res)

WalletRemove ==
    \E confirm \in {"yes", "no"} :
        \E res \in {walletRemove(State, confirm)} :
            Apply("walletRemove", <<>>, confirm, res)

WalletChange ==
    \E privateKey \in CliKeys, password \in CliPasswords :
        \E res \in {walletChange(State, "yes", privateKey, password, password)} :
            Apply("walletChange", privateKey, password, res)

WalletChangePassword ==
    \E oldPassword \in CliPasswords, newPassword \in CliPasswords :
        \E res \in {walletChangePassword(State, oldPassword, newPassword,
                                         newPassword)} :
            Apply("walletChangePassword", <<oldPassword>>, newPassword, res)

GetWalletClient ==
    \E res \in {getWalletClient(State)} :
        Apply("getWalletClient", <<>>, "", res)

NextCli ==
    \/ WalletSetCommand
    \/ WalletUnlock
    \/ WalletRemove
    \/ WalletChange
    \/ WalletChangePassword
    \/ GetWalletClient

SpecCli == InitCli /\ [][NextCli]_vars

----------------------------------------------------------------------------
(* A buyTokens or sellTokens call of the autonomous agent, one step per    *)
(* stretch of code between two awaits, with the wallet commands of the CLI *)
(* run while the call is suspended.                                        *)

\* walletClient.writeContract: the transaction is signed by the account of
\* the client; the entry notes whether deleteWallet has removed that
\* account's key since the trade began
writeContract(tr, functionName, to) ==
    [tr EXCEPT !.signed =
        Append(@, [functionName |-> functionName,
                   signer |-> tr.walletClient.account.address,
                   to |-> to,
                   deleted |-> tr.walletClient.account.address \in tr.deleted])]

\* The module state of wallet and client is left as it is
TradeOnly == 
    UNCHANGED <<dirExists, saltFile, walletFile, modes, currentAccount,
                currentPrivateKey, env, rng, stored, encryptions>>

\* buyTokens / sellTokens is called and awaits the quote and the gas price
TradeBegin ==
    /\ trade.pc = "idle"
    /\ \E kind \in {"buy", "sell"} :
          /\ trade' = [NoTrade EXCEPT !.pc = "quote", !.kind = kind]
          /\ lastResult' = [op |-> kind, a1 |-> <<>>, a2 |-> "quote",
                            r |-> Success(<<>>), io |-> <<>>, fault |-> 0]
    /\ UNCHANGED walletClient
    /\ TradeOnly

\* const account = getAccount(); const walletClient = getWalletClient();
\* buyTokens goes on to writeContract('buy'), sellTokens awaits the
\* allowance.  An error thrown is caught and ends the call
TradeCapture ==
    /\ trade.pc = "quote"
    /\ \E a \in {getAccount(State)} :
          IF ~a.r.success
          THEN /\ trade' = NoTrade
               /\ walletClient' = a.s.walletClient
               /\ lastResult' = [op |-> trade.kind, a1 |-> <<>>, a2 |-> "failed",
                                 r |-> a.r, io |-> <<>>, fault |-> 0]
          ELSE \E w \in {getWalletClient(a.s)} :
                 \E tr \in {[trade EXCEPT !.account = [address |-> a.r.address],
                                          !.walletClient = w.s.walletClient]} :
                    /\ trade' = IF trade.kind = "buy"
                                THEN [writeContract(tr, "buy", tr.account.address)
                                        EXCEPT !.pc = "receipt"]
                                ELSE [tr EXCEPT !.pc = "allowance"]
                    /\ walletClient' = w.s.walletClient
                    /\ lastResult' = [op |-> trade.kind, a1 |-> <<>>,
                                      a2 |-> "captured", r |-> w.r,
                                      io |-> <<>>, fault |-> 0]
    /\ TradeOnly

\* sellTokens resumes with the allowance: writeContract('approve') and the
\* wait for its receipt if it is too low, else writeContract('sell')
TradeAllowance ==
    /\ trade.pc = "allowance"
    /\ \E enough \in BOOLEAN :
          /\ trade' = IF enough
                      THEN [writeContract(trade, "sell", trade.account.address)
                              EXCEPT !.pc = "receipt"]
                      ELSE [writeContract(trade, "approve", trade.account.address)
                              EXCEPT !.pc = "approved"]
          /\ lastResult' = [op |-> trade.kind, a1 |-> <<>>, a2 |-> "allowance",
                            r |-> Success(<<>>), io |-> <<>>, fault |-> 0]
    /\ UNCHANGED walletClient
    /\ TradeOnly

\* sellTokens resumes with the receipt of the approval: writeContract('sell')
TradeApproved ==
    /\ trade.pc = "approved"
    /\ trade' = [writeContract(trade, "sell", trade.account.address)
                   EXCEPT !.pc = "receipt"]
    /\ lastResult' = [op |-> trade.kind, a1 |-> <<>>, a2 |-> "approved",
                      r |-> Success(<<>>), io |-> <<>>, fault |-> 0]
    /\ UNCHANGED walletClient
    /\ TradeOnly

\* The receipt of the buy or sell transaction: the call returns
TradeReceipt ==
    /\ trade.pc = "receipt"
    /\ trade' = NoTrade
    /\ lastResult' = [op |-> trade.kind, a1 |-> <<>>, a2 |-> "receipt",
                      r |-> Success(<<>>), io |-> <<>>, fault |-> 0]
    /\ UNCHANGED walletClient
    /\ TradeOnly

TradeKeys == {KeyA, KeyBRaw}

TradePasswords == {"longpassword1"}

TradeWalletSet ==
    \E privateKey \in TradeKeys, password \in TradePasswords :
        \E res \in {walletSet(State, privateKey, password, password)} :
            Apply("walletSet", privateKey, password, res)

TradeWalletRemove ==
    \E res \in {walletRemove(State, "yes")} :
        Apply("walletRemove", <<>>, "yes", res)

TradeWalletChange ==
    \E privateKey \in TradeKeys, password \in TradePasswords :
        \E res \in {walletChange(State, "yes", privateKey, password, password)} :
            Apply("walletChange", privateKey, password, res)

NextTrade ==
    \/ TradeWalletSet
    \/ TradeWalletRemove
    \/ TradeWalletChange
    \/ TradeBegin
    \/ TradeCapture
    \/ TradeAllowance
    \/ TradeApproved
    \/ TradeReceipt

SpecTrade == Init /\ [][NextTrade]_vars

----------------------------------------------------------------------------
(* A vault whose file is damaged on disk: one vault is created, one        *)
(* character of wallet.enc is replaced by another, and the vault is        *)
(* unlocked and locked.                                                    *)

CreateWallet ==
    /\ ~walletFile.exists
    /\ SaveWallet
    /\ lastResult'.a1 = KeyA

\* The characters a character c of the file is replaced by: c with one of
\* its six bits flipped, with all of them flipped, the next character of
\* the alphabet, and the characters outside the alphabet
Replacements(c) ==
    LET flipped == {IF (c \div (2 ^ k)) % 2 = 1 THEN c - 2 ^ k ELSE c + 2 ^ k :
                      k \in 0..5}
        special == {PadChar, Colon, DashChar, UnderscoreChar, OtherChar}
    IN  IF c < 64
        THEN flipped \cup {63 - c, (c + 1) % 64} \cup special
        ELSE {0, 1, 63} \cup (special \ {c})

Tamper ==
    /\ walletFile.exists
    /\ walletFile.data = stored.value
    /\ \E i \in 1..Len(walletFile.data) :
         \E c \in Replacements(walletFile.data[i]) :
            walletFile' = File([walletFile.data EXCEPT ![i] = c])
    /\ lastResult' = [op |-> "tamper", a1 |-> <<>>, a2 |-> "",
                      r |-> Success(<<>>), io |-> <<>>, fault |-> 0]
    /\ UNCHANGED <<dirExists, saltFile, modes, currentAccount,
                   currentPrivateKey, walletClient, env, trade, rng, stored,
                   encryptions>>

NextTamper ==
    \/ CreateWallet
    \/ Tamper
    \/ LoadWallet
    \/ ClearWalletFromMemory

SpecTamper == Init /\ [][NextTamper]_vars

----------------------------------------------------------------------------
(* A file system that fails: in each of the steps below, the fault-th fs   *)
(* call of the operation that can throw (mkdirSync, readFileSync,          *)
(* writeFileSync, statSync, unlinkSync) throws, and the operation has      *)
(* reached that call.  Between such steps vaults are created, unlocked,    *)
(* locked and deleted on a file system that works.  A call fails on files  *)
(* that are as the program wrote them, and not in two operations in a row: *)
(* what a failure left behind is first unlocked, locked, deleted or        *)
(* written anew without failure.                                           *)

\* wallet.enc and .salt, where they exist, are as saveWallet wrote them
Healthy ==
    /\ walletFile.exists => walletFile.data = stored.value
    /\ saltFile.exists => Len(saltFile.data) = SALT_LENGTH

\* The passwords the policy accepts: with any other, saveWallet and
\* changePassword return before their first fs call
PolicyPasswords == {password \in Passwords : validatePassword(password).valid}

Faulty(fault, partial) == [State EXCEPT !.fault = fault, !.partial = partial]

SaveWalletFails ==
    Healthy /\ lastResult.fault = 0 /\
    \E password \in PolicyPasswords, fault \in 1..MaxFault, partial \in BOOLEAN :
        \E res \in {saveWallet(Faulty(fault, partial), KeyA, password)} :
            /\ res.s.n >= fault
            /\ Apply("saveWallet", KeyA, password, res)

LoadWalletFails ==
    Healthy /\ lastResult.fault = 0 /\
    \E password \in PolicyPasswords, fault \in 1..MaxFault, partial \in BOOLEAN :
        \E res \in {loadWallet(Faulty(fault, partial), password)} :
            /\ res.s.n >= fault
            /\ Apply("loadWallet", <<>>, password, res)

DeleteWalletFails ==
    Healthy /\ lastResult.fault = 0 /\
    \E fault \in 1..MaxFault, partial \in BOOLEAN :
        \E res \in {deleteWallet(Faulty(fault, partial))} :
            /\ res.s.n >= fault
            /\ Apply("deleteWallet", <<>>, "", res)

UpdateWalletFails ==
    Healthy /\ lastResult.fault = 0 /\
    \E password \in PolicyPasswords, fault \in 1..MaxFault, partial \in BOOLEAN :
        \E res \in {updateWallet(Faulty(fault, partial), KeyB, password)} :
            /\ res.s.n >= fault
            /\ Apply("updateWallet", KeyB, password, res)

ChangePasswordFails ==
    Healthy /\ lastResult.fault = 0 /\
    \E oldPassword \in PolicyPasswords, newPassword \in PolicyPasswords,
       fault \in 1..MaxFault, partial \in BOOLEAN :
        \E res \in {changePassword(Faulty(fault, partial),
                                    oldPassword, newPassword)} :
            /\ res.s.n >= fault
            /\ Apply("changePassword", <<oldPassword>>, newPassword, res)

NextFaults ==
    \/ CreateWallet
    \/ LoadWallet
    \/ ClearWalletFromMemory
    \/ DeleteWallet
    \/ SaveWalletFails
    \/ LoadWalletFails
    \/ DeleteWalletFails
    \/ UpdateWalletFails
    \/ ChangePasswordFails

SpecFaults == Init /\ [][NextFaults]_vars

----------------------------------------------------------------------------
(* Properties *)

Session == <<currentAccount, currentPrivateKey>>

\* wallet.enc exists and is no longer the text saveWallet wrote
Damaged == walletFile.exists /\ walletFile.data # stored.value

\* The damaged text still decodes to the nonce and ciphertext that were
\* written, and to the tag that was written or a head of it that
\* setAuthTag accepts
SameDecoding ==
    LET now == Split(walletFile.data)
        was == Split(stored.value)
    IN  /\ Len(now) = 3
        /\ Base64Decode(now[1]) = Base64Decode(was[1])
        /\ Base64Decode(now[3]) = Base64Decode(was[3])
        /\ LET tag == Base64Decode(now[2])
           IN  /\ Len(tag) \in GcmTagLengths
               /\ tag = SubSeq(Base64Decode(was[2]), 1, Len(tag))

(* C1: round trip.  saveWallet(K, P) with a valid key K and a password P   *)
(* of at least 8 characters succeeds, stores K under P and leaves the      *)
(* session holding K; and whenever loadWallet is called with the password  *)
(* of the stored vault, whatever happened to the session in between, it    *)
(* succeeds and leaves the session holding exactly the stored key and the  *)
(* address derived from it.                                                *)
C1_RoundTrip ==
    /\ (/\ lastResult.op = "saveWallet"
        /\ validatePrivateKey(lastResult.a1)
        /\ ~privateKeyToAccount(lastResult.a1).threw
        /\ validatePassword(lastResult.a2).valid)
       => /\ lastResult.r.success
          /\ walletFile.exists
          /\ stored.key = lastResult.a1
          /\ stored.password = lastResult.a2
          /\ currentPrivateKey = lastResult.a1
    /\ (/\ lastResult.op = "loadWallet"
        /\ walletFile.exists
        /\ lastResult.a2 = stored.password)
       => /\ lastResult.r.success
          /\ currentPrivateKey = stored.key
          /\ currentAccount = privateKeyToAccount(stored.key).account
          /\ lastResult.r.address = currentAccount.address

C1_Witness ==
    /\ lastResult.op = "loadWallet"
    /\ lastResult.a2 = stored.password
    /\ lastResult.r.success
    /\ stored.key = KeyA
    /\ currentPrivateKey = KeyA

(* C2: authentication.  A loadWallet step with a password other than the   *)
(* one the vault was saved under returns failure ("Incorrect password."),  *)
(* returns no address or key, and leaves currentAccount and                *)
(* currentPrivateKey as they were before the call.                         *)
C2_Authentication ==
    [][(/\ lastResult'.op = "loadWallet"
        /\ walletFile.exists
        /\ lastResult'.a2 # stored.password)
       => /\ ~lastResult'.r.success
          /\ lastResult'.r.address = <<>>
          /\ lastResult'.r.error = "Incorrect password."
          /\ Session' = Session]_vars

C2_Witness ==
    /\ lastResult.op = "loadWallet"
    /\ walletFile.exists
    /\ lastResult.a2 # stored.password
    /\ ~lastResult.r.success
    /\ currentPrivateKey = stored.key

C5_PasswordChangeTakesEffect ==
    [][(/\ lastResult'.op = "changePassword"
        /\ lastResult'.r.success
        /\ lastResult'.a1 # <<lastResult'.a2>>)
       => /\ ~loadWallet(State', lastResult'.a1[1]).r.success
          /\ loadWallet(State', lastResult'.a2).r.success
          /\ loadWallet(State', lastResult'.a2).s.currentPrivateKey
               = stored.key
          /\ loadWallet(State', lastResult'.a2).r.address
               = privateKeyToAccount(stored.key).account.address]_vars

C5_Witness ==
    /\ lastResult.op = "changePassword"
    /\ lastResult.r.success
    /\ lastResult.a1 # <<lastResult.a2>>
    /\ stored.password = lastResult.a2

(* C6: salt stability.  While the vault exists, no step other than a       *)
(* delete or a rotate changes the salt file once it has been written; in   *)
(* particular changePassword leaves it as it was.                          *)
C6_SaltStability ==
    [][(/\ saltFile.exists
        /\ walletFile.exists
        /\ lastResult'.op \notin {"deleteWallet", "updateWallet"})
       => saltFile' = saltFile]_vars

C6_Witness ==
    /\ lastResult.op = "changePassword"
    /\ lastResult.r.success
    /\ saltFile = File(randomBytes(0, SALT_LENGTH))
    /\ rng >= 3

(* C7: a successful updateWallet on an existing vault leaves a salt file   *)
(* that differs from the one the old vault used.                           *)
C7_RotateReplacesSalt ==
    [][(/\ lastResult'.op = "updateWallet"
        /\ lastResult'.r.success
        /\ walletFile.exists
        /\ saltFile.exists)
       => saltFile'.exists /\ saltFile'.data # saltFile.data]_vars

(* C8: a vault created after an earlier vault was deleted (wallet.enc is   *)
(* gone, its salt was written before) is encrypted under a salt that       *)
(* differs from the deleted vault's.                                       *)
C8_NoSaltReuse ==
    [][(/\ lastResult'.op \in {"saveWallet", "walletSet"}
        /\ lastResult'.r.success
        /\ ~walletFile.exists
        /\ saltFile.exists)
       => saltFile'.exists /\ saltFile'.data # saltFile.data]_vars

(* C9: a successful updateWallet(K', P') ends in the state deleteWallet()  *)
(* followed by saveWallet(K', P') ends in: wallet.enc exists, the session  *)
(* holds the normalised K' and its address, loadWallet(P') yields that     *)
(* key, and no password makes loadWallet yield the old key.                *)
C9_RotateIsDeleteThenCreate ==
    [][(lastResult'.op = "updateWallet" /\ lastResult'.r.success)
       => /\ State' = Settled(saveWallet(deleteWallet(State).s,
                                         lastResult'.a1, lastResult'.a2).s)
          /\ walletFile'.exists
          /\ currentPrivateKey' = normalizeKey(lastResult'.a1)
          /\ currentAccount' = privateKeyToAccount(currentPrivateKey').account
          /\ lastResult'.r.address = currentAccount'.address
          /\ loadWallet(clearSession(State'), lastResult'.a2).s.currentPrivateKey
               = currentPrivateKey'
          /\ \A password \in Passwords :
                (stored.key # Null /\ stored.key # currentPrivateKey')
                => loadWallet(clearSession(State'), password).s.currentPrivateKey
                     # stored.key]_vars

C9_Witness ==
    /\ lastResult.op = "updateWallet"
    /\ lastResult.r.success
    /\ walletFile.exists
    /\ currentPrivateKey = KeyB
    /\ rng >= 3

(* C10: an updateWallet that returns failure leaves the vault file, the    *)
(* salt file and the session as they were before the call.                 *)
C10_FailedRotateMutatesNothing ==
    [][(lastResult'.op = "updateWallet" /\ ~lastResult'.r.success)
       => /\ walletFile' = walletFile
          /\ saltFile' = saltFile
          /\ Session' = Session]_vars

(* C11: deleteWallet returns success and leaves no wallet.enc and an empty  *)
(* session, from every state; a second deleteWallet right after it returns *)
(* success too and changes nothing.                                        *)
C11_DeleteIdempotent ==
    [][lastResult'.op = "deleteWallet"
       => /\ lastResult'.r.success
          /\ ~walletExists(State')
          /\ ~isWalletLoaded(State')
          /\ getCurrentPrivateKey(State') = Null
          /\ deleteWallet(State').r.success
          /\ Settled(deleteWallet(State').s) = State']_vars

C11_Witness ==
    /\ lastResult.op = "deleteWallet"
    /\ lastResult.r.success
    /\ \E i \in DOMAIN lastResult.io : lastResult.io[i].call = "unlinkSync"
    /\ ~walletFile.exists
    /\ saltFile.exists
    /\ currentPrivateKey = Null

(* C12: clearWalletFromMemory empties the session (isWalletLoaded false,   *)
(* getCurrentPrivateKey and getWalletInfo null) and leaves the directory,  *)
(* the salt file and wallet.enc as they were: where a vault exists, a      *)
(* loadWallet with its password still succeeds and yields the same key.    *)
C12_LockTouchesMemoryOnly ==
    [][lastResult'.op = "clearWalletFromMemory"
       => /\ ~isWalletLoaded(State')
          /\ getCurrentPrivateKey(State') = Null
          /\ ~getWalletInfo(State').present
          /\ UNCHANGED <<dirExists, saltFile, walletFile>>
          /\ walletFile.exists
             => /\ loadWallet(State', stored.password).r.success
                /\ loadWallet(State', stored.password).s.currentPrivateKey
                     = stored.key]_vars

C12_Witness ==
    /\ lastResult.op = "clearWalletFromMemory"
    /\ walletFile.exists
    /\ stored.key = KeyA
    /\ currentPrivateKey = Null
    /\ currentAccount = NoAccount

(* C13: saveWallet and changePassword reject a (new) password of 7         *)
(* characters or less with the policy's message, and never return that     *)
(* message for a password of 8 characters or more.                         *)
C13_PasswordPolicyBoundary ==
    lastResult.op \in {"saveWallet", "changePassword"}
    => /\ Len(lastResult.a2) <= 7
          => lastResult.r = Failure("Password must be at least 8 characters.")
       /\ Len(lastResult.a2) >= 8
          => lastResult.r.error # "Password must be at least 8 characters."

C13_Witness ==
    /\ lastResult.op = "changePassword"
    /\ Len(lastResult.a2) = 8
    /\ lastResult.r.success
    /\ stored.password = lastResult.a2

\* The key string without surrounding blanks and without a leading 0x
HexPart(privateKey) ==
    LET trimmed == Trim(privateKey)
    IN  IF StartsWith0x(trimmed) THEN SubSeq(trimmed, 3, Len(trimmed))
        ELSE trimmed

Is64Hex(hex) == Len(hex) = 64 /\ \A i \in 1..Len(hex) : hex[i] \in HexChars

(* C14, as stated: saveWallet rejects every key that lacks the 0x prefix   *)
(* and every key whose hex part is not 64 hex characters, before any file  *)
(* I/O.                                                                    *)
C14_PrefixRequired ==
    (/\ lastResult.op = "saveWallet"
     /\ ~StartsWith0x(lastResult.a1) \/ ~Is64Hex(HexPart(lastResult.a1)))
    => ~lastResult.r.success /\ lastResult.io = <<>>

(* C14, amended: saveWallet rejects every key whose hex part, with or      *)
(* without the 0x prefix, is not 64 hex characters, before any call into   *)
(* fs or crypto and leaving directory, salt and blob as they were; a key   *)
(* of 64 hex characters without the prefix is not rejected for its format: *)
(* where it is the key of an account and the password is one the policy    *)
(* accepts, it is stored with the prefix added.                            *)
C14_FormatValidation ==
    [][lastResult'.op = "saveWallet"
       => \E hex \in {HexPart(lastResult'.a1)} :
          /\ ~Is64Hex(hex)
             => /\ ~lastResult'.r.success
                /\ lastResult'.io = <<>>
                /\ UNCHANGED <<dirExists, saltFile, walletFile>>
          /\ (/\ Is64Hex(hex)
              /\ ~StartsWith0x(lastResult'.a1)
              /\ ~privateKeyToAccount(<<"0", "x">> \o lastResult'.a1).threw
              /\ Len(lastResult'.a2) >= MIN_PASSWORD_LENGTH)
             => /\ lastResult'.r.success
                /\ currentPrivateKey' = <<"0", "x">> \o lastResult'.a1
                /\ stored'.key = currentPrivateKey']_vars

C14_Witness ==
    /\ lastResult.op = "saveWallet"
    /\ lastResult.a1 = KeyShort
    /\ Len(lastResult.a2) >= MIN_PASSWORD_LENGTH
    /\ lastResult.r.error = InvalidKeyFormat
    /\ lastResult.io = <<>>
    /\ ~dirExists

(* C15: a saveWallet that returns failure because of the password policy   *)
(* or the key format has made no call into fs or crypto (no key            *)
(* derivation, no encryption) and leaves directory, salt file, blob file   *)
(* and session as they were.                                               *)
C15_RejectedCreateChangesNothing ==
    [][(/\ lastResult'.op = "saveWallet"
        /\ lastResult'.r.error \in {"Password must be at least 8 characters.",
                                    InvalidKeyFormat})
       => /\ lastResult'.io = <<>>
          /\ UNCHANGED <<dirExists, saltFile, walletFile, rng>>
          /\ Session' = Session]_vars

C15_Witness ==
    /\ lastResult.op = "saveWallet"
    /\ lastResult.r.error = InvalidKeyFormat
    /\ walletFile.exists
    /\ walletFile.data = stored.value
    /\ currentPrivateKey = stored.key
    /\ currentPrivateKey # Null

(* C16: with no wallet.enc, loadWallet returns the "No wallet found"       *)
(* failure for every password, creates neither the directory nor a salt    *)
(* file, and leaves the session as it was.                                 *)
C16_UnlockRequiresVault ==
    [][(lastResult'.op = "loadWallet" /\ ~walletFile.exists)
       => /\ lastResult'.r = Failure(NoWalletFound)
          /\ UNCHANGED <<dirExists, saltFile, walletFile, rng>>
          /\ \A i \in DOMAIN lastResult'.io :
                lastResult'.io[i].call = "existsSync"
          /\ Session' = Session]_vars

C16_Witness ==
    /\ lastResult.op = "loadWallet"
    /\ lastResult.r.error = NoWalletFound
    /\ ~dirExists
    /\ ~saltFile.exists
    /\ ~walletFile.exists

(* C17: every loadWallet that fails on an existing wallet.enc, be it for a *)
(* wrong password or for a damaged file, returns the failure a wrong       *)
(* password returns.                                                       *)
C17_NoOracle ==
    (/\ lastResult.op = "loadWallet"
     /\ walletFile.exists
     /\ ~lastResult.r.success)
    => lastResult.r = Failure("Incorrect password.")

\* The calls of the list io that can throw
Fallible(io) ==
    {i \in DOMAIN io :
        io[i].call \in {"mkdirSync", "readFileSync", "writeFileSync",
                        "statSync", "unlinkSync"}}

(* C18: in a deleteWallet (alone or inside updateWallet) that finds        *)
(* wallet.enc, every unlinkSync is preceded by at least 3 writeFileSync of *)
(* wallet.enc that ended without exception, each with data of the length   *)
(* the file had and, where the file held the ciphertext of a vault, other  *)
(* than it; and deleteWallet removes the file by unlinkSync only.          *)
C18_SecureDeleteOrdering ==
    [][(lastResult'.op \in {"deleteWallet", "updateWallet"} /\ walletFile.exists)
       => LET io == lastResult'.io
              unlinks == {i \in DOMAIN io : io[i].call = "unlinkSync"}
              passes(i) ==
                  {j \in 1..(i - 1) :
                      /\ io[j].call = "writeFileSync"
                      /\ io[j].path = "WALLET_FILE"
                      /\ Len(io[j].data) = Len(walletFile.data)
                      /\ (stored.key # Null /\ walletFile.data = stored.value)
                         => io[j].data # walletFile.data}
          IN  /\ \A i \in unlinks : Cardinality(passes(i)) >= 3
              /\ (lastResult'.op = "deleteWallet" /\ ~walletFile'.exists)
                 => unlinks # {}]_vars

C18_Witness ==
    /\ lastResult.op = "deleteWallet"
    /\ lastResult.fault > 0
    /\ lastResult.io # <<>>
    /\ lastResult.io[Len(lastResult.io)].call = "unlinkSync"
    /\ walletFile = File(Rep(OtherChar, Len(stored.value)))
    /\ stored.key = KeyA

\* The fs call that threw is the last call the operation made
NoRetry ==
    /\ lastResult.io # <<>>
    /\ Len(lastResult.io) \in Fallible(lastResult.io)
    /\ Cardinality(Fallible(lastResult.io)) = lastResult.fault

(* C19, as stated: an operation one of whose fs calls threw returns        *)
(* failure, makes no further fs call and leaves the session as it was.     *)
C19_FailureLeavesSession ==
    [][lastResult'.fault > 0
       => /\ ~lastResult'.r.success
          /\ NoRetry'
          /\ Session' = Session]_vars

(* C19, amended: an operation one of whose fs calls threw returns failure  *)
(* and makes no further fs call.  saveWallet, loadWallet and deleteWallet  *)
(* leave the session as it was; updateWallet leaves it as it was when the  *)
(* call threw in its deleteWallet and empty when it threw in its           *)
(* saveWallet; changePassword leaves it as it was when the call threw in   *)
(* its loadWallet and holding the key of the vault when it threw in its    *)
(* saveWallet.  The session never holds a key that was not stored.         *)
C19_FailuresSurfaced ==
    [][lastResult'.fault > 0
       => /\ ~lastResult'.r.success
          /\ NoRetry'
          /\ lastResult'.op \in {"saveWallet", "loadWallet", "deleteWallet"}
             => Session' = Session
          /\ lastResult'.op = "updateWallet"
             => IF lastResult'.r.error = SaveFailed
                THEN Session' = <<NoAccount, Null>>
                ELSE Session' = Session
          /\ lastResult'.op = "changePassword"
             => IF lastResult'.r.error = SaveFailed
                THEN Session' = <<privateKeyToAccount(stored.key).account,
                                  stored.key>>
                ELSE Session' = Session]_vars

C19_Witness ==
    /\ lastResult.op = "changePassword"
    /\ lastResult.fault > 0
    /\ lastResult.r.error = SaveFailed
    /\ lastResult.io[Len(lastResult.io)].call = "writeFileSync"
    /\ currentPrivateKey = KeyA

(* C20: after a deleteWallet, saveWallet or changePassword one of whose fs *)
(* calls threw, wallet.enc and the salt file are exactly as before the     *)
(* operation, or wallet.enc is absent.                                     *)
C20_NoInconsistentVault ==
    [][(/\ lastResult'.fault > 0
        /\ lastResult'.op \in {"deleteWallet", "saveWallet", "changePassword"})
       => \/ walletFile' = walletFile /\ saltFile' = saltFile
          \/ ~walletFile'.exists]_vars

(* C21: any two encryptions under the same derived key (the same password  *)
(* and salt) use different nonces of IV_LENGTH bytes, whatever operations  *)
(* lie between them; and a changePassword that keeps the password, hence   *)
(* encrypts the same plaintext key under the same derived key, writes a    *)
(* blob different from the one it replaces.                                *)
C21_NonceUniqueness ==
    [][/\ \A i, j \in 1..Len(encryptions') :
             (i < j /\ encryptions'[i].key = encryptions'[j].key)
                 => encryptions'[i].iv # encryptions'[j].iv
       /\ \A i \in 1..Len(encryptions') :
             Len(encryptions'[i].iv) = IV_LENGTH
       /\ (/\ lastResult'.op = "changePassword"
           /\ lastResult'.r.success
           /\ lastResult'.a1 = <<lastResult'.a2>>)
          => /\ stored'.key = stored.key
             /\ saltFile' = saltFile
             /\ walletFile'.data # walletFile.data]_vars

C21_Witness ==
    \E i, j \in 1..Len(encryptions) :
        /\ i < j
        /\ encryptions[i].key = encryptions[j].key
        /\ lastResult.op = "changePassword"
        /\ lastResult.a1 = <<lastResult.a2>>
        /\ lastResult.r.success
        /\ j = Len(encryptions)

(* C22: the plaintext private key is returned by no exported operation:    *)
(* while a key is loaded, neither the result of the last operation nor     *)
(* what getCurrentAccount, getWalletInfo and getCurrentPrivateKey return   *)
(* is or contains the key held in the session.                             *)
C22_KeyNeverReturned ==
    currentPrivateKey # Null
        => /\ lastResult.r.address # currentPrivateKey
           /\ getCurrentAccount(State).address # currentPrivateKey
           /\ getWalletInfo(State).address # currentPrivateKey
           /\ getCurrentPrivateKey(State) # currentPrivateKey

(* C23: in every state the vault directory, if it exists, has mode 0700    *)
(* and the salt file and wallet.enc, if they exist, have mode 0600; and    *)
(* after every mkdirSync and writeFileSync that the last operation         *)
(* completed, the overwrite passes of deleteWallet among them, the file    *)
(* written had the owner-only mode.                                        *)
C23_OwnerOnlyPermissions ==
    /\ dirExists <=> modes.WALLET_DIR # NoMode
    /\ saltFile.exists <=> modes.SALT_FILE # NoMode
    /\ walletFile.exists <=> modes.WALLET_FILE # NoMode
    /\ dirExists => modes.WALLET_DIR = OwnerOnlyDir
    /\ saltFile.exists => modes.SALT_FILE = OwnerOnlyFile
    /\ walletFile.exists => modes.WALLET_FILE = OwnerOnlyFile
    /\ \A i \in 1..Len(lastResult.io) :
          \* a call that threw is the last one, and has no result
          (i < Len(lastResult.io) \/ lastResult.fault = 0)
              => /\ lastResult.io[i].call = "mkdirSync"
                    => lastResult.io[i].mode = OwnerOnlyDir
                 /\ lastResult.io[i].call = "writeFileSync"
                    => lastResult.io[i].mode = OwnerOnlyFile

C23_Witness ==
    /\ lastResult.op = "updateWallet"
    /\ lastResult.r.success
    /\ walletFile.exists
    /\ \E i \in 1..Len(lastResult.io) :
          /\ lastResult.io[i].call = "writeFileSync"
          /\ lastResult.io[i].data = Rep(OtherChar, Len(lastResult.io[i].data))
          /\ lastResult.io[i].data # <<>>

(* C24: when no key is loaded in the session and AGENT_PRIVATE_KEY is not  *)
(* set in the environment, hasWallet() is false, and start() reports the   *)
(* wallet as Locked when wallet.enc exists and as Not configured when it   *)
(* does not.                                                               *)
C24_HasWalletTruthful ==
    (currentPrivateKey = Null /\ env = parseEnv(Null))
        => /\ ~hasWallet(State)
           /\ start(State) = IF walletExists(State) THEN "Wallet: Locked"
                             ELSE "Wallet: Not configured"

(* C25: while the session is empty, getWalletClient() and getAccount()     *)
(* throw or return the client of the key of the environment, never a       *)
(* client bound to a key that came from the vault.                         *)
C25_NoRemovedKeyClient ==
    currentPrivateKey = Null
        => \E g \in {getWalletClient(State).r} :
              \/ ~g.success
              \/ g.address = privateKeyToAccount(env.AGENT_PRIVATE_KEY).account.address

C27_SessionPair ==
    /\ currentAccount # NoAccount <=> currentPrivateKey # Null
    /\ currentPrivateKey # Null
          => /\ ~privateKeyToAccount(currentPrivateKey).threw
             /\ currentAccount = privateKeyToAccount(currentPrivateKey).account
    /\ getWalletInfo(State).present <=> isWalletLoaded(State)
    /\ isWalletLoaded(State) <=> getCurrentPrivateKey(State) # Null
    /\ getWalletInfo(State).present
          => /\ getWalletInfo(State).hasPrivateKey
             /\ getWalletInfo(State).address =
                    privateKeyToAccount(currentPrivateKey).account.address

\* Unlocked, after the session had been cleared by deleteWallet
C27_Witness ==
    /\ lastResult.op = "loadWallet"
    /\ lastResult.r.success
    /\ currentPrivateKey = KeyB
    /\ getWalletInfo(State).present
    /\ rng >= 3

\* The states of the vault
NoVault == ~walletExists(State) /\ ~isWalletLoaded(State)

Locked == walletExists(State) /\ ~isWalletLoaded(State)

Unlocked == walletExists(State) /\ isWalletLoaded(State)

(* C28: in every state reachable by saveWallet, loadWallet, deleteWallet,  *)
(* updateWallet, changePassword and clearWalletFromMemory, a populated     *)
(* session implies that wallet.enc exists: the state is NoVault, Locked    *)
(* or Unlocked.                                                            *)
C28_UnlockedImpliesVault ==
    /\ isWalletLoaded(State) => walletExists(State)
    /\ NoVault \/ Locked \/ Unlocked

\* Unlocked by an updateWallet, whose deleteWallet had passed through NoVault
C28_Witness ==
    /\ Unlocked
    /\ lastResult.op = "updateWallet"
    /\ lastResult.r.success
    /\ \E i \in 1..Len(lastResult.io) : lastResult.io[i].call = "unlinkSync"

C30_FailedChangePasswordChangesNothing ==
    [][(lastResult'.op = "changePassword" /\ ~lastResult'.r.success)
       => /\ \/ ~validatePassword(lastResult'.a2).valid
             \/ ~walletFile.exists
             \/ lastResult'.a1 # <<stored.password>>
          /\ walletFile' = walletFile
          /\ saltFile' = saltFile
          /\ dirExists' = dirExists
          /\ modes' = modes
          /\ stored' = stored
          /\ Session' = Session
          /\ walletFile.exists
                => \E l \in {loadWallet(State', stored.password)} :
                      l.r.success /\ l.s.currentPrivateKey = stored.key]_vars

\* The old password is right and the new one too short, on a locked vault
C30_Witness ==
    /\ lastResult.op = "changePassword"
    /\ ~lastResult.r.success
    /\ lastResult.a1 = <<stored.password>>
    /\ ~validatePassword(lastResult.a2).valid
    /\ walletFile.exists
    /\ currentPrivateKey = Null

====
